---- MODULE Spec2Model ----
(***************************************************************************)
(* A model of league2's asset loading layer (league2/assets.py):          *)
(* AssetManager.start / __load / __load_file, the polling interface        *)
(* (is_finished, get_progress) and the four typed caches, with the worker  *)
(* thread interleaved with the caller's thread.                            *)
(*                                                                         *)
(* Path strings are modelled as a directory-component sequence plus a      *)
(* stem and an extension, so that os.path.splitext, os.path.join and       *)
(* pathlib's relative_to are computed, not assumed.  The process working   *)
(* directory is "/".                                                       *)
(***************************************************************************)
EXTENDS Integers, Sequences, FiniteSets, TLC

\* ------------------------------------------------------------------ bounds
\* Number of start() calls that get past the AlreadyLoading guard.
MaxStarts == 2
\* Longest preload list passed to start().
MaxPreload == 1

\* -------------------------------------------------------- program constants
ImageExts == {".png", ".jpg", ".jpeg", ".bmp"}
FontExts == {".ttf"}
Exts == ImageExts \cup FontExts
DefaultFontSize == 12

\* "root is None" of start(preload, root=None).
NoRoot == <<"None">>

\* ------------------------------------------------------------- path strings
\* pathlib.Path(p).parts for the directory part: "." components are dropped.
RECURSIVE Parts(_)
Parts(ds) ==
    IF ds = <<>> THEN <<>>
    ELSE IF Head(ds) = "." THEN Parts(Tail(ds))
    ELSE <<Head(ds)>> \o Parts(Tail(ds))

IsPrefix(a, b) ==
    /\ Len(a) <= Len(b)
    /\ \A i \in 1..Len(a) : a[i] = b[i]

\* The tail of b after its first k components.
Drop(b, k) == SubSeq(b, k + 1, Len(b))

\* The anchor of a path: "/" when it is absolute.
Anchor(ds) == IF Parts(ds) # <<>> /\ Head(Parts(ds)) = "/" THEN "/" ELSE ""

\* pathlib.Path(fname).relative_to(root) raises ValueError unless both have the
\* same anchor and the parts of root are a prefix of the parts of fname.
CanRelate(fname, rt) ==
    /\ Anchor(fname.dirs) = Anchor(rt)
    /\ IsPrefix(Parts(rt), Parts(fname.dirs))

\* n = os.path.splitext(Path(fname).relative_to(root))[0].replace('\\', '/')
LogicalName(fname, rt) ==
    [dirs |-> Drop(Parts(fname.dirs), Len(Parts(rt))), stem |-> fname.stem]

\* The directory the operating system resolves a spelling to (cwd is "/").
Resolve(ds) ==
    LET p == Parts(ds)
    IN IF p # <<>> /\ Head(p) = "/" THEN Tail(p) ELSE p

\* The file on disk that open(fname) reaches.
Phys(fname) == [dirs |-> Resolve(fname.dirs), stem |-> fname.stem, ext |-> fname.ext]

\* --------------------------------------------------------------- descriptors
\* A descriptor is the dict `data` of __load_file; keys is the set of keys the
\* dict has (a missing key is a KeyError when it is read).
Desc(keys, type, alpha, rows, columns, sprites, size) ==
    [keys |-> keys, type |-> type, alpha |-> alpha, rows |-> rows,
     columns |-> columns, sprites |-> sprites, size |-> size]

\* __fill_defaults(ext); 'alpha': 'True' is a non-empty string, hence truthy.
FillDefaults(ext) ==
    IF ext \in ImageExts
    THEN Desc({"type", "alpha"}, "sprite", TRUE, 0, 0, <<>>, 0)
    ELSE Desc({"type", "size"}, "font", FALSE, 0, 0, <<>>, DefaultFontSize)

\* Sidecar contents used by the disks below.
Spr(name, rect, iterable) == [name |-> name, rect |-> rect, iterable |-> iterable]
SideOpaque == Desc({"type", "alpha"}, "sprite", FALSE, 0, 0, <<>>, 0)
SideTiles == Desc({"type", "alpha", "rows", "columns"}, "tilesheet", FALSE, 2, 4, <<>>, 0)
SideTilesZero == Desc({"type", "alpha", "rows", "columns"}, "tilesheet", FALSE, 0, 4, <<>>, 0)
\* A tile-sheet sidecar that leaves 'alpha' out.
SideTilesNoAlpha == Desc({"type", "rows", "columns"}, "tilesheet", FALSE, 2, 4, <<>>, 0)
SideSheet ==
    Desc({"type", "alpha", "sprites"}, "spritesheet", TRUE, 0, 0,
         <<Spr("idle", <<0, 0, 8, 8>>, TRUE), Spr("run", <<8, 0, 8, 8>>, TRUE)>>, 0)
SideSheetBad ==
    Desc({"type", "alpha", "sprites"}, "spritesheet", TRUE, 0, 0,
         <<Spr("idle", <<0, 0, 8, 8>>, TRUE), Spr("run", <<>>, FALSE)>>, 0)

\* ---------------------------------------------------------------------- disk
\* A disk lists the asset files in directory-listing order, each with the
\* outcome the backend gives for it (fault: "none", "decode" when
\* pygame.image.load / pygame.font.Font raises, "convert" when convert() /
\* convert_alpha() raises), and the sidecar .json files.
File(dirs, stem, ext, fault) == [dirs |-> dirs, stem |-> stem, ext |-> ext, fault |-> fault]
Side(dirs, stem, data) == [dirs |-> dirs, stem |-> stem, data |-> data]
MkDisk(files, sides) == [files |-> files, sides |-> sides]

APng == File(<<"r">>, "a", ".png", "none")
ATtf == File(<<"r">>, "a", ".ttf", "none")

Disks ==
    { MkDisk(<<APng, ATtf>>, {}),
      MkDisk(<<File(<<"r">>, "notes", ".txt", "none")>>, {}),
      MkDisk(<<File(<<"r">>, "a", ".png", "decode")>>, {}),
      MkDisk(<<File(<<"r">>, "a", ".png", "convert")>>, {}),
      MkDisk(<<APng>>, {Side(<<"r">>, "a", SideOpaque)}),
      MkDisk(<<APng>>, {Side(<<"r">>, "a", SideTiles)}),
      MkDisk(<<APng>>, {Side(<<"r">>, "a", SideTilesZero)}),
      MkDisk(<<APng>>, {Side(<<"r">>, "a", SideTilesNoAlpha)}),
      MkDisk(<<APng>>, {Side(<<"r">>, "a", SideSheet)}),
      MkDisk(<<APng>>, {Side(<<"r">>, "a", SideSheetBad)}) }

\* The root spellings start() and set_root() are given: the asset folder "r"
\* and its parent, the working directory ".", both relative as the default
\* '../assets' of Settings is.
Roots == {<<"r">>, <<".">>}
InitialRoot == <<"r">>


Range(q) == {q[i] : i \in 1..Len(q)}

\* Is there a file at p, and what does the backend do with it?  Opening a file
\* that does not exist raises like a failed decode.
OnDisk(p, d) ==
    \E i \in 1..Len(d.files) :
        /\ d.files[i].dirs = p.dirs
        /\ d.files[i].stem = p.stem
        /\ d.files[i].ext = p.ext
FaultOf(p, d) ==
    IF OnDisk(p, d)
    THEN (CHOOSE f \in Range(d.files) :
              f.dirs = p.dirs /\ f.stem = p.stem /\ f.ext = p.ext).fault
    ELSE "decode"

\* os.path.isfile(os.path.splitext(fname)[0] + '.json') and the parsed content.
HasSidecar(p, d) == \E s \in d.sides : s.dirs = p.dirs /\ s.stem = p.stem
SidecarOf(p, d) == (CHOOSE s \in d.sides : s.dirs = p.dirs /\ s.stem = p.stem).data

\* A resolver that lays the sidecar's fields over the extension default
\* (data.update(json.loads(...))).
DescOf_Merged(p, d) ==
    IF HasSidecar(p, d)
    THEN LET side == SidecarOf(p, d)
             base == FillDefaults(p.ext)
         IN [side EXCEPT !.keys = @ \cup base.keys,
                         !.alpha = IF "alpha" \in side.keys THEN side.alpha ELSE base.alpha,
                         !.size = IF "size" \in side.keys THEN side.size ELSE base.size]
    ELSE FillDefaults(p.ext)

\* Lines 180-184: the sidecar, when there is one, replaces the default.
DescOf(p, d) == IF HasSidecar(p, d) THEN SidecarOf(p, d) ELSE FillDefaults(p.ext)

\* os.walk(root) with the extension filter: the files directly in root first,
\* then those of its sub-directories; each path is os.path.join(dname, fname),
\* so it carries the root exactly as it is spelled.
Scan(rt, d) ==
    LET top == Resolve(rt)
        Direct(f) == f.dirs = top /\ f.ext \in Exts
        Deeper(f) == IsPrefix(top, f.dirs) /\ f.dirs # top /\ f.ext \in Exts
        Spell(f) == [dirs |-> rt \o Drop(f.dirs, Len(top)), stem |-> f.stem, ext |-> f.ext]
        Listed(q) == [i \in 1..Len(q) |-> Spell(q[i])]
    IN Listed(SelectSeq(d.files, Direct)) \o Listed(SelectSeq(d.files, Deeper))

\* -------------------------------------------------------------- __load_file
\* A dict assignment that drops the other keys (cache = {k: v}).
Put_Evicting(f, k, v) == [x \in {k} |-> v]

\* dict assignment cache[k] = v
Put(f, k, v) == [x \in DOMAIN f \cup {k} |-> IF x = k THEN v ELSE f[x]]
EmptyCache == [x \in {} |-> x]

NoName == [dirs |-> <<>>, stem |-> ""]
NoPath == [dirs |-> <<>>, stem |-> "", ext |-> ""]
NoData == Desc({}, "", FALSE, 0, 0, <<>>, 0)

\* The manager fields __load_file reads and writes (decodes counts the calls of
\* pygame.image.load / pygame.font.Font per file on disk).
Mgr(cf, su, ti, ss, fo, dc) ==
    [cached_files |-> cf, surfaces |-> su, tilesheets |-> ti,
     spritesheets |-> ss, fonts |-> fo, decodes |-> dc]

\* Where one call of __load_file stands: st is "return", "raise" or the
\* statement it executes next; n, data and k are its locals.
Frame(m, st, n, data, k) == [m |-> m, st |-> st, n |-> n, data |-> data, k |-> k]

Decoded(m, p) ==
    [m EXCEPT !.decodes = Put(@, p, IF p \in DOMAIN @ THEN @[p] + 1 ELSE 1)]

ConvOf(data) == IF data.alpha THEN "alpha" ELSE "opaque"

\* Lines 165-217 up to and including the first cache assignment.
LoadBegin(m, fname, rt, d) ==
    IF fname \in m.cached_files THEN Frame(m, "return", NoName, NoData, 0)
    ELSE IF ~CanRelate(fname, rt) THEN Frame(m, "raise", NoName, NoData, 0)
    ELSE
      LET n == LogicalName(fname, rt)
          p == Phys(fname)
          m1 == [m EXCEPT !.cached_files = @ \cup {fname}]
          data == DescOf(p, d)
          m2 == Decoded(m1, p)
          bad == FaultOf(p, d)
      IN IF fname.ext \notin Exts THEN Frame(m1, "raise", n, NoData, 0)
         ELSE IF "type" \notin data.keys THEN Frame(m1, "raise", n, data, 0)
         ELSE IF data.type = "sprite" THEN
           IF bad = "decode" THEN Frame(m2, "raise", n, data, 0)
           ELSE Frame([m2 EXCEPT !.surfaces = Put(@, n, [src |-> p, conv |-> "raw"])],
                      "sprite_conv", n, data, 0)
         ELSE IF data.type = "tilesheet" THEN
           IF \/ bad # "none"
              \/ {"alpha", "rows", "columns"} \ data.keys # {}
              \/ data.columns = 0
              \/ data.rows = 0
           THEN Frame(m2, "raise", n, data, 0)
           ELSE Frame([m2 EXCEPT !.tilesheets =
                           Put(@, n, [src |-> p, conv |-> ConvOf(data),
                                      rows |-> data.rows, cols |-> data.columns])],
                      "return", n, data, 0)
         ELSE IF data.type = "spritesheet" THEN
           IF bad # "none" \/ "alpha" \notin data.keys
           THEN Frame(m2, "raise", n, data, 0)
           ELSE LET m3 == [m2 EXCEPT !.spritesheets =
                               Put(@, n, [src |-> p, conv |-> ConvOf(data),
                                          packed |-> EmptyCache])]
                IN IF "sprites" \notin data.keys THEN Frame(m3, "raise", n, data, 0)
                   ELSE IF data.sprites = <<>> THEN Frame(m3, "return", n, data, 0)
                   ELSE Frame(m3, "sheet_add", n, data, 1)
         ELSE IF data.type = "font" THEN
           IF "size" \notin data.keys THEN Frame(m1, "raise", n, data, 0)
           ELSE IF bad = "decode" THEN Frame(m2, "raise", n, data, 0)
           ELSE Frame([m2 EXCEPT !.fonts = Put(@, n, [src |-> p, size |-> data.size])],
                      "return", n, data, 0)
         ELSE Frame(m1, "raise", n, data, 0)

\* The statements after the first cache assignment, one visible write each.
LoadStep(fr, d) ==
    LET m == fr.m
        n == fr.n
        data == fr.data
    IN IF fr.st = "sprite_conv" THEN
         \* lines 189-192
         IF "alpha" \notin data.keys \/ FaultOf(m.surfaces[n].src, d) = "convert"
         THEN Frame(m, "raise", n, data, 0)
         ELSE IF data.alpha
         THEN Frame([m EXCEPT !.surfaces[n].conv = "alpha"], "return", n, data, 0)
         ELSE Frame([m EXCEPT !.surfaces[n].conv = "convert"], "sprite_alpha", n, data, 0)
       ELSE IF fr.st = "sprite_alpha" THEN
         \* line 193
         Frame([m EXCEPT !.surfaces[n].conv = "opaque"], "return", n, data, 0)
       ELSE
         \* lines 214-215, one sprite of data['sprites']
         LET spr == data.sprites[fr.k]
         IN IF ~spr.iterable THEN Frame(m, "raise", n, data, fr.k)
            ELSE LET m1 == [m EXCEPT !.spritesheets[n].packed = Put(@, spr.name, spr.rect)]
                 IN IF fr.k = Len(data.sprites)
                    THEN Frame(m1, "return", n, data, fr.k)
                    ELSE Frame(m1, "sheet_add", n, data, fr.k + 1)

Settled(fr) == fr.st \in {"return", "raise"}

\* One whole call of __load_file, as the preload loop makes it.
RECURSIVE RunLoad(_, _)
RunLoad(fr, d) == IF Settled(fr) THEN fr ELSE RunLoad(LoadStep(fr, d), d)
LoadFile(m, fname, rt, d) == RunLoad(LoadBegin(m, fname, rt, d), d)

\* for fname in preload: self.__load_file(fname)   -- stops at the first raise
RECURSIVE Preload(_, _, _, _)
Preload(m, list, rt, d) ==
    IF list = <<>> THEN [m |-> m, ok |-> TRUE]
    ELSE LET fr == LoadFile(m, Head(list), rt, d)
         IN IF fr.st = "raise" THEN [m |-> fr.m, ok |-> FALSE]
            ELSE Preload(fr.m, Tail(list), rt, d)


\* --------------------------------------------------------------------- state
VARIABLES
    disk,           \* the files under the working directory (never written)
    root,           \* self.__root
    finished,       \* self.__finished
    loaded_files,   \* self.__loaded_files
    files,          \* self.__files
    cached_files,   \* self.__cached_files (a list only ever appended to and
                    \* tested with `in`: kept as the set of its elements)
    surfaces,       \* self.__surfaces
    tilesheets,     \* self.__tilesheets
    spritesheets,   \* self.__spritesheets
    fonts,          \* self.__fonts
    worker,         \* the thread running __load: its position and locals
    ret,            \* the caller's last call and what it returned or raised
    decodes,        \* history: decode calls per file on disk
    starts,         \* history: start() calls that passed the guard
    phase,          \* history: the last start() that spawned a worker
    failed,         \* history: whether a preload raised, and the load that
                    \* raised on the worker
    sheet,          \* a TileSheet or SpriteSheet that game code holds and
                    \* slices (SheetSpec), with the history of its slices
    settings,       \* the Settings object of app.py (SettingsSpec)
    store           \* the settings file Settings.save writes and load reads

vars == <<disk, root, finished, loaded_files, files, cached_files, surfaces,
          tilesheets, spritesheets, fonts, worker, ret, decodes, starts, phase,
          failed, sheet, settings, store>>

caches == <<surfaces, tilesheets, spritesheets, fonts>>

M == Mgr(cached_files, surfaces, tilesheets, spritesheets, fonts, decodes)

\* Write the manager fields of m back.
Store(m) ==
    /\ cached_files' = m.cached_files
    /\ surfaces' = m.surfaces
    /\ tilesheets' = m.tilesheets
    /\ spritesheets' = m.spritesheets
    /\ fonts' = m.fonts
    /\ decodes' = m.decodes

\* What is remembered of the last start() that spawned a worker: loaded_files
\* and len(files) at that moment, whether its preload list was empty, the
\* root it scanned, and whether set_root() was called before its worker
\* finished.
Phase(base, total, empty, rt, moved) ==
    [base |-> base, total |-> total, empty |-> empty, root |-> rt, moved |-> moved]
NoPhase == Phase(0, 0, TRUE, InitialRoot, FALSE)

\* The calls of __load_file that raised: pre, whether one of a preload loop
\* did; bg, whether one on the worker did (there is at most one, the thread
\* ends with it), then path is its file and n its logical name (NoName when
\* relative_to raised).
Failures(pre, bg, path, n) == [pre |-> pre, bg |-> bg, path |-> path, n |-> n]
NoFailures == Failures(FALSE, FALSE, NoPath, NoName)

\* The caller's last call: arg is the preload list of a start() that got past
\* the guard or <<name>> of a lookup, out the outcome ("ok", the boolean of
\* is_finished or the error raised), val the value returned: <<>>,
\* <<numerator, denominator>> or <<handle>>.
Ret(op, arg, out, val) == [op |-> op, arg |-> arg, out |-> out, val |-> val]

Thread(pc, idx, st, n, data, k) ==
    [pc |-> pc, idx |-> idx, st |-> st, n |-> n, data |-> data, k |-> k]
NoThread == Thread("none", 0, "", NoName, NoData, 0)

\* A TileSheet or SpriteSheet object: the size of its surface, its fields
\* (__rows, __cols, __cell_width, __cell_height, __cached, __packed), and as
\* history sliced, the number of subsurface() calls made per key, and hits,
\* the keys that a call found in __cached.  kind is "none" before an object is
\* constructed.
Sheet(kind, size, rows, cols, cw, ch, cached, packed, sliced, hits) ==
    [kind |-> kind, size |-> size, rows |-> rows, cols |-> cols,
     cell_width |-> cw, cell_height |-> ch, cached |-> cached, packed |-> packed,
     sliced |-> sliced, hits |-> hits]
NoSheet == Sheet("none", <<0, 0>>, 0, 0, 0, 0, EmptyCache, EmptyCache, EmptyCache, {})

\* Python values that json handles: a dict (of its items) or a str (of the
\* value its JSON text denotes).
Py(kind, x) == [py |-> kind, of |-> <<x>>]

\* json.dumps(x): the str holding the JSON text of x, also when x is a str.
Dumps(x) == Py("str", x)

\* json.loads(text): the value the text denotes.
Loads(text) == text.of[1]

\* The fields of a Settings object that save() writes; made is FALSE before
\* the constructor has returned.
Fields(title, fullscreen, size, fps, assets, preload, custom) ==
    [title |-> title, fullscreen |-> fullscreen, size |-> size, fps |-> fps,
     assets |-> assets, preload |-> preload, custom |-> custom]
DefaultFields ==
    Fields("Made with League 2", FALSE, <<640, 480>>, 40, "../assets", <<>>, EmptyCache)
SettingsObj(made, fields) == [made |-> made, fields |-> fields]
NoSettings == SettingsObj(FALSE, DefaultFields)

\* No settings file on disk.
NoFile == Py("absent", Py("dict", DefaultFields))

\* AssetManager.__init__
Init ==
    /\ disk \in Disks
    /\ root = InitialRoot
    /\ finished = TRUE
    /\ loaded_files = 0
    /\ files = <<>>
    /\ cached_files = {}
    /\ surfaces = EmptyCache
    /\ tilesheets = EmptyCache
    /\ spritesheets = EmptyCache
    /\ fonts = EmptyCache
    /\ worker = NoThread
    /\ ret = Ret("init", <<>>, "ok", <<>>)
    /\ decodes = EmptyCache
    /\ starts = 0
    /\ phase = NoPhase
    /\ failed = NoFailures
    /\ sheet = NoSheet
    /\ settings = NoSettings
    /\ store = NoFile

\* ------------------------------------------------------------ caller's calls
\* The spellings a caller may give a file of the disk: absolute, and relative to
\* the working directory (which is root-relative when the root is ".").
Spellings(ds) == {<<"/">> \o ds, ds}
PreloadPaths(d) ==
    {[dirs |-> sp, stem |-> f.stem, ext |-> f.ext] :
        f \in Range(d.files), sp \in UNION {Spellings(g.dirs) : g \in Range(d.files)}}
PreloadLists(d) == UNION {[1..k -> PreloadPaths(d)] : k \in 0..MaxPreload}

\* The logical names a caller asks for: those of the files under the root.
Names(d) == {LogicalName(f, root) : f \in Range(Scan(root, d))}

\* The arguments start() is called with.  A call made while a load is in
\* progress raises before it reads its preload list, so one list stands for
\* all there; the root argument is drawn in full either way.
StartPreloads == IF finished THEN PreloadLists(disk) ELSE {<<>>}
StartRoots == Roots \cup {NoRoot}

\* AssetManager.start(preload, root)
\* line 237: raise RuntimeError
StartRejected ==
    /\ ret' = Ret("start", <<>>, "AlreadyLoading", <<>>)
    /\ UNCHANGED <<settings, store, sheet, disk, root, finished, loaded_files, files, cached_files,
                   caches, worker, decodes, starts, phase, failed>>

\* start() with line 254 moved above the preload loop: the flag is cleared
\* before the preload files are loaded.
StartAccepted_FlagFirst(preload, rootArg) ==
         /\ starts < MaxStarts
         /\ starts' = starts + 1
         /\ LET rt == IF rootArg # NoRoot THEN rootArg ELSE root
                fl == files \o Scan(rt, disk)
                res == Preload(M, preload, rt, disk)
            IN /\ root' = rt
               /\ files' = fl
               /\ Store(res.m)
               /\ finished' = FALSE
               /\ IF res.ok
                  THEN /\ worker' = Thread("wait", 0, "", NoName, NoData, 0)
                       /\ phase' = Phase(loaded_files, Len(fl), preload = <<>>, rt, FALSE)
                       /\ ret' = Ret("start", preload, "ok", <<>>)
                       /\ UNCHANGED failed
                  ELSE /\ ret' = Ret("start", preload, "error", <<>>)
                       /\ failed' = [failed EXCEPT !.pre = TRUE]
                       /\ UNCHANGED <<worker, phase>>
         /\ UNCHANGED <<settings, store, sheet, disk, loaded_files>>

\* lines 239-255: root override, scan, preload loop, thread start
StartAccepted(preload, rootArg) ==
         /\ starts < MaxStarts
         /\ starts' = starts + 1
         /\ LET rt == IF rootArg # NoRoot THEN rootArg ELSE root
                fl == files \o Scan(rt, disk)
                res == Preload(M, preload, rt, disk)
            IN /\ root' = rt
               /\ files' = fl
               /\ Store(res.m)
               /\ IF res.ok
                  THEN /\ finished' = FALSE
                       /\ worker' = Thread("wait", 0, "", NoName, NoData, 0)
                       /\ phase' = Phase(loaded_files, Len(fl), preload = <<>>, rt, FALSE)
                       /\ ret' = Ret("start", preload, "ok", <<>>)
                       /\ UNCHANGED failed
                  ELSE /\ ret' = Ret("start", preload, "error", <<>>)
                       /\ failed' = [failed EXCEPT !.pre = TRUE]
                       /\ UNCHANGED <<finished, worker, phase>>
         /\ UNCHANGED <<settings, store, sheet, disk, loaded_files>>

Start_NoGuard(preload, rootArg) == StartAccepted(preload, rootArg)

\* start() with lines 239-240 moved above the guard of line 236: the root
\* argument is taken over before the call is rejected.
Start_RootFirst(preload, rootArg) ==
    IF ~finished
    THEN /\ ret' = Ret("start", <<>>, "AlreadyLoading", <<>>)
         /\ root' = IF rootArg # NoRoot THEN rootArg ELSE root
         /\ UNCHANGED <<settings, store, sheet, disk, finished, loaded_files, files,
                        cached_files, caches, worker, decodes, starts, phase, failed>>
    ELSE StartAccepted(preload, rootArg)

Start(preload, rootArg) ==
    IF ~finished THEN StartRejected ELSE StartAccepted(preload, rootArg)

\* AssetManager.set_root(root)
SetRoot(rt) ==
    /\ root' = rt
    /\ ret' = Ret("set_root", <<>>, "ok", <<>>)
    /\ phase' = IF finished THEN phase ELSE [phase EXCEPT !.moved = TRUE]
    /\ UNCHANGED <<settings, store, sheet, disk, finished, loaded_files, files, cached_files, caches,
                   worker, decodes, starts, failed>>

Observe(r) ==
    /\ ret' = r
    /\ UNCHANGED <<settings, store, sheet, disk, root, finished, loaded_files, files, cached_files,
                   caches, worker, decodes, starts, phase, failed>>

\* AssetManager.is_finished()
IsFinished == Observe(Ret("is_finished", <<>>, IF finished THEN "True" ELSE "False", <<>>))

\* self.__loaded_files / len(self.__files): the quotient as numerator and
\* denominator, or the ZeroDivisionError.
Progress ==
    IF Len(files) = 0
    THEN [out |-> "ZeroDivisionError", num |-> 0, den |-> 0]
    ELSE [out |-> "ok", num |-> loaded_files, den |-> Len(files)]

\* AssetManager.get_progress()
GetProgress == Observe(Ret("get_progress", <<>>, Progress.out, <<Progress.num, Progress.den>>))

\* cache[name], a KeyError when the name is not a key
Lookup(op, cache, name) ==
    IF name \in DOMAIN cache
    THEN Observe(Ret(op, <<name>>, "ok", <<cache[name]>>))
    ELSE Observe(Ret(op, <<name>>, "NotFound", <<>>))

GetSurface(name) == Lookup("get_surface", surfaces, name)
GetTilesheet(name) == Lookup("get_tilesheet", tilesheets, name)
GetSpritesheet(name) == Lookup("get_spritesheet", spritesheets, name)
GetFont(name) == Lookup("get_font", fonts, name)

\* ------------------------------------------------------- the worker (__load)
\* Apply the outcome of a step of __load_file on the worker.
Land(fr, fname) ==
    /\ Store(fr.m)
    /\ IF fr.st = "raise"
       THEN /\ worker' = [worker EXCEPT !.pc = "dead", !.st = "raise", !.n = fr.n,
                                        !.data = NoData, !.k = 0]
            /\ failed' = [failed EXCEPT !.bg = TRUE, !.path = fname, !.n = fr.n]
       ELSE /\ worker' = [worker EXCEPT
                              !.pc = IF fr.st = "return" THEN "count" ELSE "load",
                              !.st = fr.st, !.n = fr.n,
                              !.data = IF fr.st = "return" THEN NoData ELSE fr.data,
                              !.k = fr.k]
            /\ UNCHANGED failed

\* pygame.time.wait(100)
WorkerWait ==
    /\ worker.pc = "wait"
    /\ worker' = [worker EXCEPT !.pc = "iter"]
    /\ UNCHANGED <<settings, store, sheet, disk, root, finished, loaded_files, files, cached_files,
                   caches, ret, decodes, starts, phase, failed>>

\* for fname in self.__files: enter __load_file(fname) up to its first cache
\* write; when the list is exhausted, self.__files.clear()
WorkerNext ==
    /\ worker.pc = "iter"
    /\ IF worker.idx < Len(files)
       THEN /\ Land(LoadBegin(M, files[worker.idx + 1], root, disk), files[worker.idx + 1])
            /\ UNCHANGED files
       ELSE /\ files' = <<>>
            /\ worker' = [worker EXCEPT !.pc = "publish"]
            /\ UNCHANGED <<cached_files, caches, decodes, failed>>
    /\ UNCHANGED <<settings, store, sheet, disk, root, finished, loaded_files, ret, starts, phase>>

\* the rest of __load_file(fname), one cache write at a time
WorkerLoad ==
    /\ worker.pc = "load"
    /\ Land(LoadStep(Frame(M, worker.st, worker.n, worker.data, worker.k), disk),
            files[worker.idx + 1])
    /\ UNCHANGED <<settings, store, sheet, disk, root, finished, loaded_files, files, ret, starts, phase>>

\* self.__loaded_files += 1
WorkerCount ==
    /\ worker.pc = "count"
    /\ loaded_files' = loaded_files + 1
    /\ worker' = [worker EXCEPT !.pc = "iter", !.idx = @ + 1, !.st = "", !.n = NoName]
    /\ UNCHANGED <<settings, store, sheet, disk, root, finished, files, cached_files, caches, ret,
                   decodes, starts, phase, failed>>

\* self.__finished = True
WorkerPublish ==
    /\ worker.pc = "publish"
    /\ finished' = TRUE
    /\ worker' = [worker EXCEPT !.pc = "done"]
    /\ UNCHANGED <<settings, store, sheet, disk, root, loaded_files, files, cached_files, caches, ret,
                   decodes, starts, phase, failed>>

WorkerStep == WorkerWait \/ WorkerNext \/ WorkerLoad \/ WorkerCount \/ WorkerPublish

Next ==
    \/ \E preload \in StartPreloads, rootArg \in StartRoots : Start(preload, rootArg)
    \/ \E rt \in Roots : SetRoot(rt)
    \/ IsFinished
    \/ GetProgress
    \/ \E name \in Names(disk) : GetSurface(name)
    \/ \E name \in Names(disk) : GetTilesheet(name)
    \/ \E name \in Names(disk) : GetSpritesheet(name)
    \/ \E name \in Names(disk) : GetFont(name)
    \/ WorkerWait
    \/ WorkerNext
    \/ WorkerLoad
    \/ WorkerCount
    \/ WorkerPublish

Spec == Init /\ [][Next]_vars

\* The worker thread is scheduled whenever it can take a step.
FairSpec == Spec /\ WF_vars(WorkerStep)

\* ---------------------------------------- TileSheet and SpriteSheet objects
\* Python's a // b, the floor of the quotient, for b # 0.
FloorDiv(a, b) == IF b > 0 THEN a \div b ELSE (0 - a) \div (0 - b)

\* surface.subsurface(rect) raises ValueError ("subsurface rectangle outside
\* surface area") unless the rectangle <<x, y, w, h>> lies within the surface.
Inside(size, rect) ==
    /\ rect[1] >= 0
    /\ rect[2] >= 0
    /\ rect[1] + rect[3] <= size[1]
    /\ rect[2] + rect[4] <= size[2]

\* A sub-view object: the key it was sliced for, which of the slices made for
\* that key it is, and its rectangle.  Two views are the same instance when
\* they agree on key and nth.
View(key, nth, rect) == [of |-> key, nth |-> nth, rect |-> rect]

\* self.__cached[key] = self.__surface.subsurface(rect)
Slice(sh, key, rect) ==
    LET nth == IF key \in DOMAIN sh.sliced THEN sh.sliced[key] + 1 ELSE 1
    IN [sh EXCEPT !.cached = Put(@, key, View(key, nth, rect)),
                  !.sliced = Put(@, key, nth)]

\* What game code constructs and asks for: surfaces of <<width, height>>, grid
\* dimensions, tile indexes, sprite names and rectangles.
SurfaceSizes == {<<3, 2>>, <<4, 4>>}
GridDims == {-1, 0, 1, 2}
TileIndexes == -1..2
SheetSprites == {"idle", "run"}
SheetRects == {<<0, 0, 2, 2>>, <<1, 0, 2, 2>>, <<2, 1, 2, 2>>}

\* The manager's fields, which no method of a sheet touches.
mgr == <<disk, root, finished, loaded_files, files, cached_files, surfaces,
         tilesheets, spritesheets, fonts, worker, decodes, starts, phase,
         failed>>

\* TileSheet.__init__(surface, rows, cols): line 27 divides by cols, line 28
\* by rows.
TileSheetInit(size, rows, cols) ==
    /\ sheet.kind = "none"
    /\ IF cols = 0 \/ rows = 0
       THEN /\ ret' = Ret("TileSheet", <<rows, cols>>, "ZeroDivisionError", <<>>)
            /\ UNCHANGED sheet
       ELSE /\ sheet' = Sheet("tilesheet", size, rows, cols,
                              FloorDiv(size[1], cols), FloorDiv(size[2], rows),
                              EmptyCache, EmptyCache, EmptyCache, {})
            /\ ret' = Ret("TileSheet", <<rows, cols>>, "ok", <<>>)
    /\ UNCHANGED <<mgr, settings, store>>

\* The rectangle of lines 59-61 with row and column exchanged.
TileRect_Swapped(row, column) ==
    <<row * sheet.cell_width, column * sheet.cell_height,
      sheet.cell_width, sheet.cell_height>>

\* Lines 59-61: the rectangle get_tile hands to subsurface().
TileRect(row, column) ==
    <<column * sheet.cell_width, row * sheet.cell_height,
      sheet.cell_width, sheet.cell_height>>

\* get_tile without the test of line 56: a new sub-surface on every call.
GetTile_NoMemo(row, column) ==
    /\ sheet.kind = "tilesheet"
    /\ sheet.cell_width > 0
    /\ sheet.cell_height > 0
    /\ LET key == <<row, column>>
           rect == TileRect(row, column)
       IN IF Inside(sheet.size, rect)
          THEN /\ sheet' = Slice(sheet, key, rect)
               /\ ret' = Ret("get_tile", key, "ok", <<Slice(sheet, key, rect).cached[key]>>)
          ELSE /\ ret' = Ret("get_tile", key, "ValueError", <<>>)
               /\ UNCHANGED sheet
    /\ UNCHANGED <<mgr, settings, store>>

\* TileSheet.get_tile(row, column), asked of a sheet whose cells have a
\* positive size.
GetTile(row, column) ==
    /\ sheet.kind = "tilesheet"
    /\ sheet.cell_width > 0
    /\ sheet.cell_height > 0
    /\ LET key == <<row, column>>
           rect == TileRect(row, column)
       IN IF key \in DOMAIN sheet.cached
          THEN /\ sheet' = [sheet EXCEPT !.hits = @ \cup {key}]
               /\ ret' = Ret("get_tile", key, "ok", <<sheet.cached[key]>>)
          ELSE IF Inside(sheet.size, rect)
          THEN /\ sheet' = Slice(sheet, key, rect)
               /\ ret' = Ret("get_tile", key, "ok", <<Slice(sheet, key, rect).cached[key]>>)
          ELSE /\ ret' = Ret("get_tile", key, "ValueError", <<>>)
               /\ UNCHANGED sheet
    /\ UNCHANGED <<mgr, settings, store>>

\* SpriteSheet.__init__(surface)
SpriteSheetInit(size) ==
    /\ sheet.kind = "none"
    /\ sheet' = Sheet("spritesheet", size, 0, 0, 0, 0,
                      EmptyCache, EmptyCache, EmptyCache, {})
    /\ ret' = Ret("SpriteSheet", <<>>, "ok", <<>>)
    /\ UNCHANGED <<mgr, settings, store>>

\* SpriteSheet.add_sprite(name, rect)
AddSprite(name, rect) ==
    /\ sheet.kind = "spritesheet"
    /\ sheet' = [sheet EXCEPT !.packed = Put(@, name, rect)]
    /\ ret' = Ret("add_sprite", <<name>>, "ok", <<>>)
    /\ UNCHANGED <<mgr, settings, store>>

\* get_sprite that answers an unknown name with the whole surface
\* (self.__packed.get(name, surface.get_rect())).
GetSprite_Default(name) ==
    /\ sheet.kind = "spritesheet"
    /\ LET rect == IF name \in DOMAIN sheet.packed THEN sheet.packed[name]
                   ELSE <<0, 0, sheet.size[1], sheet.size[2]>>
       IN IF name \in DOMAIN sheet.cached
          THEN /\ sheet' = [sheet EXCEPT !.hits = @ \cup {name}]
               /\ ret' = Ret("get_sprite", <<name>>, "ok", <<sheet.cached[name]>>)
          ELSE IF Inside(sheet.size, rect)
          THEN /\ sheet' = Slice(sheet, name, rect)
               /\ ret' = Ret("get_sprite", <<name>>, "ok", <<Slice(sheet, name, rect).cached[name]>>)
          ELSE /\ ret' = Ret("get_sprite", <<name>>, "ValueError", <<>>)
               /\ UNCHANGED sheet
    /\ UNCHANGED <<mgr, settings, store>>

\* get_sprite without the test of line 98: every call slices a new view.
GetSprite_NoMemo(name) ==
    /\ sheet.kind = "spritesheet"
    /\ IF name \notin DOMAIN sheet.packed
       THEN /\ ret' = Ret("get_sprite", <<name>>, "NotFound", <<>>)
            /\ UNCHANGED sheet
       ELSE IF Inside(sheet.size, sheet.packed[name])
       THEN /\ sheet' = Slice(sheet, name, sheet.packed[name])
            /\ ret' = Ret("get_sprite", <<name>>, "ok",
                          <<Slice(sheet, name, sheet.packed[name]).cached[name]>>)
       ELSE /\ ret' = Ret("get_sprite", <<name>>, "ValueError", <<>>)
            /\ UNCHANGED sheet
    /\ UNCHANGED <<mgr, settings, store>>

\* SpriteSheet.get_sprite(name): self.__packed[name] is a KeyError (NotFound)
\* for a name that is not registered.
GetSprite(name) ==
    /\ sheet.kind = "spritesheet"
    /\ IF name \in DOMAIN sheet.cached
       THEN /\ sheet' = [sheet EXCEPT !.hits = @ \cup {name}]
            /\ ret' = Ret("get_sprite", <<name>>, "ok", <<sheet.cached[name]>>)
       ELSE IF name \notin DOMAIN sheet.packed
       THEN /\ ret' = Ret("get_sprite", <<name>>, "NotFound", <<>>)
            /\ UNCHANGED sheet
       ELSE IF Inside(sheet.size, sheet.packed[name])
       THEN /\ sheet' = Slice(sheet, name, sheet.packed[name])
            /\ ret' = Ret("get_sprite", <<name>>, "ok",
                          <<Slice(sheet, name, sheet.packed[name]).cached[name]>>)
       ELSE /\ ret' = Ret("get_sprite", <<name>>, "ValueError", <<>>)
            /\ UNCHANGED sheet
    /\ UNCHANGED <<mgr, settings, store>>

\* Game code with one sheet in hand and an idle manager beside it.
SheetInit ==
    /\ disk = MkDisk(<<>>, {})
    /\ root = InitialRoot
    /\ finished = TRUE
    /\ loaded_files = 0
    /\ files = <<>>
    /\ cached_files = {}
    /\ surfaces = EmptyCache
    /\ tilesheets = EmptyCache
    /\ spritesheets = EmptyCache
    /\ fonts = EmptyCache
    /\ worker = NoThread
    /\ ret = Ret("init", <<>>, "ok", <<>>)
    /\ decodes = EmptyCache
    /\ starts = 0
    /\ phase = NoPhase
    /\ failed = NoFailures
    /\ sheet = NoSheet
    /\ settings = NoSettings
    /\ store = NoFile

SheetNext ==
    \/ \E size \in SurfaceSizes, rows \in GridDims, cols \in GridDims :
           TileSheetInit(size, rows, cols)
    \/ \E row \in TileIndexes, column \in TileIndexes : GetTile(row, column)
    \/ \E size \in SurfaceSizes : SpriteSheetInit(size)
    \/ \E name \in SheetSprites, rect \in SheetRects : AddSprite(name, rect)
    \/ \E name \in SheetSprites : GetSprite(name)

SheetSpec == SheetInit /\ [][SheetNext]_vars


\* ------------------------------------------------------------------- lookups
\* The cache get_surface / get_tilesheet / get_spritesheet / get_font reads for
\* a descriptor type.
CacheOfKind(kind) ==
    CASE kind = "sprite" -> surfaces
      [] kind = "tilesheet" -> tilesheets
      [] kind = "spritesheet" -> spritesheets
      [] kind = "font" -> fonts
      [] OTHER -> EmptyCache

\* The get* lookup matching the file's descriptor succeeds for the file's
\* logical name under the root rt.
Retrievable(fname, rt) ==
    /\ CanRelate(fname, rt)
    /\ LogicalName(fname, rt) \in DOMAIN CacheOfKind(DescOf(Phys(fname), disk).type)

NoLoadFailed == ~failed.pre /\ ~failed.bg

\* Every handle a lookup can return is fully built: a sprite has had its
\* alpha or opaque conversion, a sprite-sheet has all the sprites of its
\* descriptor.
SpriteNames(data) == {data.sprites[i].name : i \in 1..Len(data.sprites)}
AllBuilt ==
    /\ \A n \in DOMAIN surfaces : surfaces[n].conv \in {"alpha", "opaque"}
    /\ \A n \in DOMAIN spritesheets :
           DOMAIN spritesheets[n].packed = SpriteNames(DescOf(spritesheets[n].src, disk))

\* No cache holds an entry made from the file p under the name n.
NoEntryFor(n, p) ==
    /\ n \in DOMAIN surfaces => surfaces[n].src # p
    /\ n \in DOMAIN tilesheets => tilesheets[n].src # p
    /\ n \in DOMAIN spritesheets => spritesheets[n].src # p
    /\ n \in DOMAIN fonts => fonts[n].src # p

\* -------------------------------------------------------------------- claims

\* C1: a start() call made while the previous start's background phase has not
\* finished (is_finished() is false) fails with AlreadyLoading.  A step that
\* makes "start" the caller's last call, or changes its outcome, is a start()
\* call.
C1_StartWhileLoadingRejected ==
    [][(/\ ~finished
        /\ ret'.op = "start"
        /\ (ret.op # "start" \/ ret.out # ret'.out))
       => ret'.out = "AlreadyLoading"]_vars

\* C1 witness: a start() call was rejected while the worker was still loading.
C1_Witness ==
    /\ ret.op = "start"
    /\ ret.out = "AlreadyLoading"
    /\ ~finished
    /\ worker.pc \in {"wait", "iter", "load", "count"}

\* C2: every file named in the preload list of a start() that returned
\* normally is retrievable through the matching get* lookup from the moment
\* start() returns (the preload loop runs to its end inside start(), before the
\* worker exists).
C2_PreloadedRetrievableOnReturn ==
    (ret.op = "start" /\ ret.out = "ok")
        => \A i \in 1..Len(ret.arg) : Retrievable(ret.arg[i], root)

\* C3: after a start() that returned normally the manager eventually reaches
\* the finished state, under fair scheduling of the worker, also when a pending
\* file fails to load.
C3_EventuallyFinished == (worker.pc = "wait") ~> finished

\* C4: once start([]) has returned and is_finished() is true, get_progress()
\* returns 1.0, a value and not an error.
C4_ProgressOneWhenFinished ==
    (finished /\ worker.pc = "done" /\ phase.empty)
        => (Progress.out = "ok" /\ Progress.num = Progress.den)

\* C5: when the scan of a start([]) finds no supported file, get_progress()
\* returns 1.0 and does not fail, at every point from start() returning onward.
C5_ProgressOneWhenNothingPending ==
    (worker.pc \in {"wait", "iter", "publish", "done"} /\ phase.empty /\ phase.total = 0)
        => (Progress.out = "ok" /\ Progress.num = Progress.den)

\* C6: whenever get_progress() returns a value, the value lies in [0,1] and
\* equals (files processed in the current background phase) / (length of the
\* pending list at the start of that phase), on every start() of a manager.
C6_ProgressIsPhaseFraction ==
    (Progress.out = "ok" /\ worker.pc # "none")
        => /\ Progress.num >= 0
           /\ Progress.num <= Progress.den
           /\ Progress.num * phase.total = (loaded_files - phase.base) * Progress.den

\* C7: when no load has failed, once is_finished() is true after start([]),
\* every file under the root with a supported extension is retrievable by its
\* logical name from the cache of the kind its descriptor names.
C7_AllRetrievableWhenFinished ==
    (/\ finished
     /\ worker.pc = "done"
     /\ phase.empty
     /\ root = phase.root
     /\ ~phase.moved
     /\ NoLoadFailed)
        => \A i \in 1..Len(Scan(root, disk)) : Retrievable(Scan(root, disk)[i], root)

\* C8: while the worker loads, a get* lookup never returns a handle that is
\* not fully built: no sprite before its alpha/opaque conversion, no
\* sprite-sheet before all its descriptor sprites are registered.
C8_NoUnfinishedHandleVisible == NoLoadFailed => AllBuilt

\* C9: when loading a file fails during the background phase, no cache keeps an
\* entry for it: every later get* lookup of its logical name reports NotFound.
C9_FailedLoadLeavesNoEntry == failed.bg => NoEntryFor(failed.n, Phys(failed.path))

\* C10: each file on disk is decoded at most once over the lifetime of a
\* manager, whatever spelling the preload list and the scans give its path.
C10_DecodedAtMostOnce == \A p \in DOMAIN decodes : decodes[p] <= 1

\* C11: the root never changes while a load is in progress, and the root the
\* worker reads for a file of a background phase (line 169, reached when the
\* path is not in __cached_files) is the root that phase's scan used, in any
\* sequence of set_root() and start() calls.
C11_WorkerSeesScanRoot ==
    [][/\ (worker.pc \in {"wait", "iter", "load", "count"}) => root' = root
       /\ (/\ worker.pc = "iter"
           /\ worker.idx < Len(files)
           /\ files[worker.idx + 1] \notin cached_files
           /\ worker'.pc # "iter")
              => root = phase.root]_vars

\* C12: in every reachable state a logical asset name is a key of at most one
\* of the four caches, whatever files and sidecars lie under the root.
Kinds == {"sprite", "tilesheet", "spritesheet", "font"}
KindsHolding(n) == {k \in Kinds : n \in DOMAIN CacheOfKind(k)}
C12_NameInAtMostOneCache ==
    \A n \in UNION {DOMAIN CacheOfKind(k) : k \in Kinds} :
        Cardinality(KindsHolding(n)) <= 1

\* C13: the four caches only grow: a name that is a key of a cache (a get*
\* lookup of it succeeds in that kind) is still a key of it after every step of
\* start(), set_root() and the worker; nothing is ever evicted.
C13_CachesOnlyGrow ==
    [][/\ DOMAIN surfaces \subseteq DOMAIN surfaces'
       /\ DOMAIN tilesheets \subseteq DOMAIN tilesheets'
       /\ DOMAIN spritesheets \subseteq DOMAIN spritesheets'
       /\ DOMAIN fonts \subseteq DOMAIN fonts']_vars

\* C13 witness: a second background phase has run to its end and the surface
\* cache holds the name stored in the first phase beside the one of the second.
C13_Witness ==
    /\ starts = 2
    /\ worker.pc = "done"
    /\ Cardinality(DOMAIN surfaces) = 2

\* The entries of a cache made from the file p.
EntriesFrom(cache, p) == {n \in DOMAIN cache : cache[n].src = p}

\* C14: a file's sidecar alone determines its classification: every cache
\* entry made from a file that has a sidecar lies in the cache of the
\* sidecar's type; for an image with a tilesheet sidecar of rows R and columns
\* C that is the tile-sheet cache only, the sheet reports R rows and C columns,
\* and every field the sheet was built from is the sidecar's own (no field of
\* the extension default is filled in).
C14_SidecarAloneClassifies ==
    \A f \in Range(disk.files) :
        LET p == [dirs |-> f.dirs, stem |-> f.stem, ext |-> f.ext]
            side == SidecarOf(p, disk)
        IN HasSidecar(p, disk) =>
             /\ \A k \in Kinds \ {side.type} : EntriesFrom(CacheOfKind(k), p) = {}
             /\ side.type = "tilesheet" =>
                  \A n \in EntriesFrom(tilesheets, p) :
                      /\ tilesheets[n].rows = side.rows
                      /\ tilesheets[n].cols = side.columns
                      /\ {"alpha", "rows", "columns"} \subseteq side.keys
                      /\ tilesheets[n].conv = ConvOf(side)

\* C14 witness: a .png with the sidecar {type: tilesheet, rows: 2, columns: 4,
\* alpha: false} has been loaded: get_tilesheet finds it, with 2 rows and 4
\* columns, and get_surface does not.
C14_Witness ==
    /\ worker.pc = "done"
    /\ surfaces = EmptyCache
    /\ \E n \in DOMAIN tilesheets :
           /\ HasSidecar(tilesheets[n].src, disk)
           /\ tilesheets[n].src.ext = ".png"
           /\ tilesheets[n].rows = 2
           /\ tilesheets[n].cols = 4
           /\ tilesheets[n].conv = "opaque"

\* ------------------------------------------------------- Settings (app.py)
\* data[key]: a str cannot be subscripted with a str (TypeError).
CanSubscript(data) == data.py = "dict"
Item(data, key) == data.of[1][key]

\* Settings.save(fname): the file holds json.dumps of the dict of lines 100-108.
Saved(fields) == Dumps(Py("dict", fields))

\* Settings.load(fname), lines 82-92: what it raises and the fields it leaves.
Loaded(fields, file) ==
    IF file.py = "absent" THEN [out |-> "FileNotFoundError", fields |-> fields]
    ELSE LET data == Dumps(file)
         IN IF ~CanSubscript(data) THEN [out |-> "TypeError", fields |-> fields]
            ELSE [out |-> "ok",
                  fields |-> Fields(Item(data, "title"), Item(data, "fullscreen"),
                                    Item(data, "size"), Item(data, "fps"),
                                    Item(data, "assets"), Item(data, "preload"),
                                    Item(data, "custom"))]

\* What game code passes to the constructor and the setters.
SettingsFile == "settings.json"
FileArgs == {"None", SettingsFile}
Titles == {"Made with League 2", "Game"}
BufferSizes == {<<640, 480>>, <<320, 240>>}
FrameRates == {40, 60}
AssetFolders == {"../assets", "r"}
PreloadFileLists == {<<>>, <<"r/a.png">>}
CustomKeys == {"volume"}
CustomValues == {7}

\* A settings file an earlier run of the game saved.
EarlierFile == Saved(Fields("Game", TRUE, <<320, 240>>, 60, "r", <<"r/a.png">>, EmptyCache))

\* Everything but the Settings object, its file and the caller's last call.
rest == <<mgr, sheet>>

\* Settings.__init__(fname), lines 71-74: save the defaults when there is no
\* file, load the file when there is one.
SettingsNew(fname) ==
    /\ ~settings.made
    /\ IF fname = "None"
       THEN /\ settings' = SettingsObj(TRUE, DefaultFields)
            /\ ret' = Ret("Settings", <<fname>>, "ok", <<>>)
            /\ UNCHANGED store
       ELSE IF store.py = "absent"
       THEN /\ settings' = SettingsObj(TRUE, DefaultFields)
            /\ store' = Saved(DefaultFields)
            /\ ret' = Ret("Settings", <<fname>>, "ok", <<>>)
       ELSE LET res == Loaded(DefaultFields, store)
            IN /\ settings' = IF res.out = "ok" THEN SettingsObj(TRUE, res.fields)
                              ELSE settings
               /\ ret' = Ret("Settings", <<fname>>, res.out, <<>>)
               /\ UNCHANGED store
    /\ UNCHANGED rest

\* Settings.save(fname)
SettingsSave ==
    /\ settings.made
    /\ store' = Saved(settings.fields)
    /\ ret' = Ret("save", <<SettingsFile>>, "ok", <<>>)
    /\ UNCHANGED <<rest, settings>>

\* Settings.load(fname)
SettingsLoad ==
    /\ settings.made
    /\ LET res == Loaded(settings.fields, store)
       IN /\ settings' = [settings EXCEPT !.fields = res.fields]
          /\ ret' = Ret("load", <<SettingsFile>>, res.out, <<>>)
    /\ UNCHANGED <<rest, store>>

\* A setter: one field assigned.
SetField(op, fields) ==
    /\ settings.made
    /\ settings' = [settings EXCEPT !.fields = fields]
    /\ ret' = Ret(op, <<>>, "ok", <<>>)
    /\ UNCHANGED <<rest, store>>

SetTitle(title) == SetField("set_title", [settings.fields EXCEPT !.title = title])
SetFullscreen(fullscreen) ==
    SetField("set_fullscreen", [settings.fields EXCEPT !.fullscreen = fullscreen])
SetBufferSize(size) == SetField("set_buffer_size", [settings.fields EXCEPT !.size = size])
SetFps(fps) == SetField("set_fps", [settings.fields EXCEPT !.fps = fps])
SetAssetFolder(folder) ==
    SetField("set_asset_folder", [settings.fields EXCEPT !.assets = folder])
SetPreloadFiles(list) ==
    SetField("set_preload_files", [settings.fields EXCEPT !.preload = list])
SetCustomSetting(setting, data) ==
    SetField("set_custom_setting", [settings.fields EXCEPT !.custom = Put(@, setting, data)])

\* A game starting up: no Settings object yet, and either no settings file or
\* the one an earlier run left.
SettingsInit ==
    /\ disk = MkDisk(<<>>, {})
    /\ root = InitialRoot
    /\ finished = TRUE
    /\ loaded_files = 0
    /\ files = <<>>
    /\ cached_files = {}
    /\ surfaces = EmptyCache
    /\ tilesheets = EmptyCache
    /\ spritesheets = EmptyCache
    /\ fonts = EmptyCache
    /\ worker = NoThread
    /\ ret = Ret("init", <<>>, "ok", <<>>)
    /\ decodes = EmptyCache
    /\ starts = 0
    /\ phase = NoPhase
    /\ failed = NoFailures
    /\ sheet = NoSheet
    /\ settings = NoSettings
    /\ store \in {NoFile, EarlierFile}

SettingsNext ==
    \/ \E fname \in FileArgs : SettingsNew(fname)
    \/ SettingsSave
    \/ SettingsLoad
    \/ \E title \in Titles : SetTitle(title)
    \/ \E fullscreen \in BOOLEAN : SetFullscreen(fullscreen)
    \/ \E size \in BufferSizes : SetBufferSize(size)
    \/ \E fps \in FrameRates : SetFps(fps)
    \/ \E folder \in AssetFolders : SetAssetFolder(folder)
    \/ \E list \in PreloadFileLists : SetPreloadFiles(list)
    \/ \E setting \in CustomKeys, data \in CustomValues : SetCustomSetting(setting, data)

SettingsSpec == SettingsInit /\ [][SettingsNext]_vars

\* ------------------------------------------------- claims about the sheets
\* Is <<row, column>> a cell of the sheet's grid?
InGrid(key) ==
    /\ key[1] >= 0
    /\ key[1] < sheet.rows
    /\ key[2] >= 0
    /\ key[2] < sheet.cols

\* C15: any two get_tile(row, column) calls of a TileSheet return the
\* identical cached sub-view instance, whatever other get_tile calls happen in
\* between: the view a call returns is always the first one sliced for its
\* (row, column).
C15_SameTileSameInstance ==
    (sheet.kind = "tilesheet" /\ ret.op = "get_tile" /\ ret.out = "ok")
        => /\ ret.val[1].of = ret.arg
           /\ ret.val[1].nth = 1

\* C15 witness: a valid tile was asked for again after other tiles had been
\* sliced, and the call was served from the cache.
C15_Witness ==
    /\ sheet.kind = "tilesheet"
    /\ ret.op = "get_tile"
    /\ ret.out = "ok"
    /\ InGrid(ret.arg)
    /\ ret.arg \in sheet.hits
    /\ Cardinality(DOMAIN sheet.cached) >= 3

\* C16: get_tile(row, column) fails for every row outside [0, rows) and every
\* column outside [0, columns), for every image size and grid size, and puts
\* no entry in the tile cache.  (The failure the code has to offer is the
\* ValueError of subsurface(); it is taken as the IndexOutOfRange.)
C16_OutOfRangeTileFails ==
    sheet.kind = "tilesheet"
        => /\ (ret.op = "get_tile" /\ ~InGrid(ret.arg)) => ret.out # "ok"
           /\ \A key \in DOMAIN sheet.cached : InGrid(key)

\* C17: constructing a TileSheet with rows <= 0 or columns <= 0 fails, and no
\* TileSheet with a non-positive grid dimension ever exists.
C17_NoNonPositiveGrid ==
    /\ (ret.op = "TileSheet" /\ (ret.arg[1] <= 0 \/ ret.arg[2] <= 0)) => ret.out # "ok"
    /\ sheet.kind = "tilesheet" => (sheet.rows >= 1 /\ sheet.cols >= 1)

\* C18: get_sprite(name) fails with NotFound whenever name has never been
\* registered by add_sprite (names are never unregistered, so: whenever it is
\* no key of __packed), and the failed call leaves the name->rect mapping and
\* the sub-view cache as they were.  A step that makes get_sprite(name) the
\* caller's last call, or changes its outcome, is such a call.
C18_UnregisteredSpriteNotFound ==
    [][(/\ sheet.kind = "spritesheet"
        /\ ret'.op = "get_sprite"
        /\ ret'.arg[1] \notin DOMAIN sheet.packed
        /\ (ret.op # "get_sprite" \/ ret.arg # ret'.arg \/ ret.out # ret'.out))
       => (/\ ret'.out = "NotFound"
           /\ sheet'.packed = sheet.packed
           /\ sheet'.cached = sheet.cached)]_vars

\* C18 witness: get_sprite of an unregistered name has just failed on a sheet
\* that has another sprite registered and sliced.
C18_Witness ==
    /\ sheet.kind = "spritesheet"
    /\ ret.op = "get_sprite"
    /\ ret.out = "NotFound"
    /\ ret.arg[1] \notin DOMAIN sheet.packed
    /\ DOMAIN sheet.packed # {}
    /\ DOMAIN sheet.cached # {}

\* C19: after any sequence of add_sprite and get_sprite calls, get_sprite(name)
\* of a registered name (whose rect lies within the image) succeeds and
\* returns a view of exactly the rect of the most recent add_sprite(name,
\* rect), also when that add_sprite overwrote a name get_sprite had returned.
C19_SpriteViewHasLatestRect ==
    (/\ sheet.kind = "spritesheet"
     /\ ret.op = "get_sprite"
     /\ ret.arg[1] \in DOMAIN sheet.packed
     /\ Inside(sheet.size, sheet.packed[ret.arg[1]]))
        => /\ ret.out = "ok"
           /\ ret.val[1].rect = sheet.packed[ret.arg[1]]

\* C20: when loading a file of the preload list fails, the error propagates
\* to the caller of start(), no worker is spawned and the manager stays idle
\* (is_finished() true), and the start() call that follows the failed one is
\* accepted.  A step that raises starts is a start() call that got past the
\* guard of line 236.
C20_PreloadFailureLeavesIdle ==
    [][/\ (starts' # starts /\ ret'.out = "error")
              => (/\ ret'.op = "start"
                  /\ finished'
                  /\ worker' = worker
                  /\ worker.pc \in {"none", "done"})
       /\ (ret.op = "start" /\ ret.out = "error" /\ ret'.op = "start")
              => ret'.out # "AlreadyLoading"]_vars

\* C20 witness: a preload file failed to load, start() raised, and the next
\* start() was accepted and spawned its worker.
C20_Witness ==
    /\ failed.pre
    /\ starts = 2
    /\ ret.op = "start"
    /\ ret.out = "ok"
    /\ worker.pc = "wait"

\* ----------------------------------------------------- claims about Settings
\* The dict the settings file holds.
StoredFields == Loads(store).of[1]

\* C21: Settings.save(f) followed by Settings.load(f) succeeds and restores
\* the saved title, fullscreen flag, buffer size, fps, asset folder, preload
\* list and custom settings, and Settings(fname) on an existing settings file
\* yields the stored values: right after either call the object's fields are
\* those the file holds.
C21_SaveLoadRoundTrip ==
    /\ (ret.op = "load" /\ store.py # "absent")
           => (ret.out = "ok" /\ settings.fields = StoredFields)
    /\ (ret.op = "Settings" /\ ret.arg = <<SettingsFile>>)
           => (ret.out = "ok" /\ settings.made /\ settings.fields = StoredFields)

\* ------------------------------------------ claims about the manager, again
\* C22: each successful start() spawns exactly one worker, at a moment when no
\* other worker is processing files (the one before has run to its end); no
\* other call spawns one; and the worker goes through the pending list one
\* file at a time in list order: its index moves by one, after the file at
\* that index has been dealt with, and it leaves the loop only behind the
\* last file.
C22_OneWorkerInListOrder ==
    [][/\ (starts' # starts /\ ret'.out = "ok")
              => (/\ worker.pc \in {"none", "done"}
                  /\ worker'.pc = "wait"
                  /\ worker'.idx = 0)
       /\ (starts' = starts \/ ret'.out # "ok")
              => (worker.pc \in {"none", "done", "dead"} => worker' = worker)
       /\ worker'.pc \in {"load", "count"} => worker'.idx < Len(files')
       /\ (worker'.idx # worker.idx /\ worker'.pc # "wait")
              => (worker.pc = "count" /\ worker'.idx = worker.idx + 1)
       /\ (worker'.pc = "publish" /\ worker.pc # "publish")
              => worker.idx = Len(files)]_vars

\* C22 witness: the worker of a second start() has dealt with the first file of
\* a two-file pending list and is at the second.
C22_Witness ==
    /\ starts = 2
    /\ worker.pc = "load"
    /\ worker.idx = 1
    /\ Len(files) >= 2

\* C23: is_finished() answers false from the return of a successful start()
\* until the worker is past the last pending file, and whenever it answers true
\* the pending list is empty and no worker is at work on a file.
C23_FinishedMeansDrained ==
    /\ worker.pc \in {"wait", "iter", "load", "count"} => ~finished
    /\ finished => (files = <<>> /\ worker.pc \in {"none", "done"})

\* C24: a start() call rejected with AlreadyLoading changes nothing, whatever
\* root it was given: the root, the pending list, the loaded count, the
\* already-loaded set and the four caches are as before, and the worker is the
\* one that was there.
C24_RejectedStartChangesNothing ==
    [][(/\ ~finished
        /\ ret'.op = "start"
        /\ ret'.out = "AlreadyLoading"
        /\ ret' # ret)
           => (/\ root' = root
               /\ files' = files
               /\ loaded_files' = loaded_files
               /\ cached_files' = cached_files
               /\ caches' = caches
               /\ worker' = worker
               /\ starts' = starts
               /\ finished' = finished)]_vars

\* C24 witness: a start() was rejected while the worker was loading a file,
\* with a file already in the caches.
C24_Witness ==
    /\ ret.op = "start"
    /\ ret.out = "AlreadyLoading"
    /\ worker.pc = "load"
    /\ cached_files # {}
    /\ \E c \in Kinds : DOMAIN CacheOfKind(c) # {}

\* ------------------------------------------- claims about the sheets, again
\* C25: for every registered name of a SpriteSheet, repeated get_sprite(name)
\* calls return the identical cached sub-view instance: the view a call
\* returns is always the first one sliced for the name, and it is the one the
\* cache holds.
C25_SameSpriteSameInstance ==
    (sheet.kind = "spritesheet" /\ ret.op = "get_sprite" /\ ret.out = "ok")
        => /\ ret.val[1].of = ret.arg[1]
           /\ ret.val[1].nth = 1
           /\ ret.val[1] = sheet.cached[ret.arg[1]]

\* C25 witness: a registered sprite was asked for again, after the other sprite
\* had been sliced too, and the call was served from the cache.
C25_Witness ==
    /\ sheet.kind = "spritesheet"
    /\ ret.op = "get_sprite"
    /\ ret.out = "ok"
    /\ ret.arg[1] \in DOMAIN sheet.packed
    /\ ret.arg[1] \in sheet.hits
    /\ DOMAIN sheet.cached = SheetSprites

\* ------------------------------------- claims about the manager, continued
\* C26: outside an in-progress single-file load, every path recorded in
\* __cached_files has its asset in one of the four caches, and a file whose
\* load failed is not recorded there (so that a later start() attempts it
\* again; the failed file the history keeps is that of a background load).
C26_RecordedMeansCached ==
    /\ worker.pc # "load"
           => \A f \in cached_files :
                  \E k \in Kinds : EntriesFrom(CacheOfKind(k), Phys(f)) # {}
    /\ failed.bg => failed.path \notin cached_files

\* C27: in every interleaving of the caller with the worker, get_progress()
\* called while is_finished() is false, after a scan that found at least one
\* file, does not divide by zero.
C27_ProgressDefinedWhileLoading ==
    (~finished /\ Scan(phase.root, disk) # <<>>) => Progress.out = "ok"

\* C28: at the moment a start() begins its directory scan the pending list is
\* empty, so that after the scan it holds each discovered file exactly once,
\* after any history, an earlier start() that aborted with a preload error
\* included.  A step that changes the pending list while the flag is true is a
\* start() past its guard.
C28_ScanStartsFromEmptyList ==
    [][(finished /\ files' # files)
           => (files = <<>> /\ files' = Scan(root', disk))]_vars

\* Do two rectangles <<x, y, w, h>> share a pixel?
Overlap(a, b) ==
    /\ a[1] < b[1] + b[3]
    /\ b[1] < a[1] + a[3]
    /\ a[2] < b[2] + b[4]
    /\ b[2] < a[2] + a[4]

\* The cells of the sheet's grid.
Cells == {key \in (0..(sheet.rows - 1)) \X (0..(sheet.cols - 1)) : InGrid(key)}

\* C29: on a TileSheet over a W x H image with 1 <= columns <= W and
\* 1 <= rows <= H, the rectangle (column*cell_width, row*cell_height,
\* cell_width, cell_height) of every cell of the grid lies inside the image,
\* the rectangles of two distinct cells share no pixel, and it is the rectangle
\* of the view get_tile returns for the cell.
C29_CellsInsideAndDisjoint ==
    (/\ sheet.kind = "tilesheet"
     /\ 1 <= sheet.cols /\ sheet.cols <= sheet.size[1]
     /\ 1 <= sheet.rows /\ sheet.rows <= sheet.size[2])
        => /\ \A key \in Cells : Inside(sheet.size, TileRect(key[1], key[2]))
           /\ \A a, b \in Cells :
                  a # b => ~Overlap(TileRect(a[1], a[2]), TileRect(b[1], b[2]))
           /\ (ret.op = "get_tile" /\ InGrid(ret.arg))
                  => (/\ ret.out = "ok"
                      /\ ret.val[1].rect = TileRect(ret.arg[1], ret.arg[2]))

\* C29 witness: the width of the image is not a multiple of the column count,
\* and get_tile has returned the last cell of a grid of several rows and
\* columns.
C29_Witness ==
    /\ sheet.kind = "tilesheet"
    /\ sheet.size = <<3, 2>>
    /\ sheet.rows = 2
    /\ sheet.cols = 2
    /\ ret.op = "get_tile"
    /\ ret.out = "ok"
    /\ ret.arg = <<1, 1>>
    /\ Cells \subseteq DOMAIN sheet.cached

====
